---- MODULE Spec2Model ----
\* A model of the cellular-automaton engine of terminal_illness (src/src/cells.rs):
\* the grid, the transition function `advance`, `resize`, and the double-buffered
\* `Game` that drives them.
\*
\* Coordinates are the program's: x is a column, y is a row, both counted from 0.
\* A Grid is a sequence of rows, a row a sequence of u8 cells; TLA+ sequences count
\* from 1, so the cell (x, y) of grid g is g[y + 1][x + 1].
EXTENDS Integers, Sequences, FiniteSets, TLC

VARIABLES
    \* --- struct Game (cells.rs:13-18) ---
    g1, g2, switch, opts,
    \* the build: TRUE when integer overflow checks are compiled in (a debug build),
    \* FALSE when u8 arithmetic wraps (a release build)
    overflow_checks,
    \* "ok" while the program runs, "panic" once an operation has terminated abnormally
    status,
    \* --- history (not program state) ---
    dims,    \* <<width, height>> of the last Game::resize, <<0, 0>> if none
    steps,   \* number of mutating calls made so far
    gen,     \* number of Game::advance calls since the last resize or set_cell
    origin,  \* the current grid as it was after the last resize or set_cell; in a run
             \* of a free function, the grid it writes as it was before the call
    last,    \* the last call: its name, arguments and result
    advances,  \* number of Game::advance calls that have returned
    snap,    \* in a run of consecutive resizes: the Game as it was before them
    trail,   \* in a run of consecutive resizes: their <<x, y>>, in order
    \* --- the free functions run on their own (cells.rs:79-147) ---
    from, to, alt,   \* advance(from, to, opts); alt is a second destination
    grid,            \* resize(grid, x, y)
    \* --- tui::run (tui.rs:134-201) ---
    update, auto_advance, quit,   \* State.update, State.advance, State.quit
    draw_times,      \* the draw times recorded so far (1 stands for any Duration)
    pc               \* where run is: "idle" when the Game is driven without it

gameVars == <<g1, g2, switch, dims, steps, gen, advances>>
fnVars == <<from, to, alt, grid>>
tripVars == <<snap, trail>>
uiVars == <<update, auto_advance, quit, draw_times, pc>>
vars == <<g1, g2, switch, opts, overflow_checks, status, dims, steps, gen, origin,
          last, advances, snap, trail, from, to, alt, grid, update, auto_advance,
          quit, draw_times, pc>>

----------------------------------------------------------------------------
\* Bounds of the model.

MaxW == 2        \* widest grid Game::resize is asked for
MaxH == 2        \* tallest grid Game::resize is asked for
MaxSteps == 3    \* mutating calls per run of the Game
MaxCells == 6    \* cells of a rectangular input of the free functions
ShapeRows == 3   \* rows of a ragged input
ShapeCols == 1   \* cells in a row of a ragged input
NbCols == 3      \* widest source of a neighbour count
MaxBlinkW == 5   \* widest grid of the blinker scenario

----------------------------------------------------------------------------
\* Values.

U8Max == 255

None == <<>>
Some(v) == <<v>>

Min(a, b) == IF a <= b THEN a ELSE b

\* [bool; 9] with exactly the indices of S set
Arr(S) == [n \in 0..8 |-> n \in S]

CellOpts(c, l, g, d) == [corners |-> c, life |-> l, grow |-> Arr(g), die |-> Arr(d)]

\* The rule configurations the model runs: classic Life, overlapping grow/die
\* sets, an orthogonal topology, the ceilings 0 and 255.
Classic == CellOpts(TRUE, 1, {3}, {0, 1, 4, 5, 6, 7, 8})

RuleConfigs ==
    { Classic,
      CellOpts(FALSE, 2, {1, 2}, {0, 1}),
      CellOpts(TRUE, 255, {0, 1, 2, 3, 4, 5, 6, 7, 8}, {0, 1, 2, 3, 4, 5, 6, 7, 8}),
      CellOpts(FALSE, 0, {0, 1}, {2, 3, 4}),
      CellOpts(TRUE, 2, {2, 3}, {1, 2}),
      CellOpts(FALSE, 255, {1}, {0, 2}) }

\* a row of n dead cells: vec![0; n]
Zeros(n) == [i \in 1..n |-> 0]

----------------------------------------------------------------------------
\* Grid access.

\* pub fn get_cell(grid, x, y) -> Option<u8>
get_cell(g, x, y) ==
    IF y < Len(g) /\ x < Len(g[y + 1]) THEN Some(g[y + 1][x + 1]) ELSE None

\* mutant: an out-of-range coordinate is clamped to the nearest cell
put_cell_clamped(g, x, y, val) ==
    IF Len(g) > 0 /\ Len(g[Min(y + 1, Len(g))]) > 0
    THEN LET r == Min(y + 1, Len(g))
         IN  [g EXCEPT ![r] = [@ EXCEPT ![Min(x + 1, Len(g[r]))] = val]]
    ELSE g

\* mutant: the row and the column are taken the wrong way round
put_cell_transposed(g, x, y, val) ==
    IF x < Len(g) /\ y < Len(g[x + 1])
    THEN [g EXCEPT ![x + 1] = [@ EXCEPT ![y + 1] = val]]
    ELSE g

\* the write of Game::set_cell on one grid: in bounds it stores val, else nothing
put_cell(g, x, y, val) ==
    IF y < Len(g) /\ x < Len(g[y + 1])
    THEN [g EXCEPT ![y + 1] = [@ EXCEPT ![x + 1] = val]]
    ELSE g

----------------------------------------------------------------------------
\* The transition function.

\* the candidate neighbours of (x, y), in the order the code chains them
polars(x, y) == << <<x, y - 1>>, <<x + 1, y>>, <<x, y + 1>>, <<x - 1, y>> >>

corners(x, y) ==
    << <<x + 1, y - 1>>, <<x + 1, y + 1>>, <<x - 1, y + 1>>, <<x - 1, y - 1>> >>

\* mutant: the corners option is ignored
candidates_polars_only(x, y, o) == polars(x, y)

candidates(x, y, o) == IF o.corners THEN polars(x, y) \o corners(x, y) ELSE polars(x, y)

\* mutant: the sign of a candidate's coordinates is lost before the lookup
lookup_unsigned(f, p) ==
    get_cell(f, IF p[1] < 0 THEN -p[1] ELSE p[1], IF p[2] < 0 THEN -p[2] ELSE p[2])

\* filter_map: a candidate with a negative coordinate is dropped without lookup,
\* the others are looked up with get_cell
lookup(f, p) == IF p[1] >= 0 /\ p[2] >= 0 THEN get_cell(f, p[1], p[2]) ELSE None

\* mutant: only a candidate of value 1 is counted
live_if_one(f, p) == LET c == lookup(f, p) IN c # None /\ c[1] = 1

\* filter: the candidate is present and non-zero
live(f, p) == LET c == lookup(f, p) IN c # None /\ c[1] # 0

\* the number of candidates that are present and non-zero
neighbors(f, x, y, o) ==
    LET c == candidates(x, y, o)
    IN  Cardinality({i \in 1..Len(c) : live(f, c[i])})

\* from[y][x] + 1 on u8: aborts when overflow checks are on, wraps otherwise
IncOverflows(v) == v + 1 > U8Max
Inc(v) == (v + 1) % (U8Max + 1)

\* mutant: growth without the ceiling
GrowValue_unclamped(v, o) == Inc(v)

GrowValue(v, o) == Min(Inc(v), o.life)

\* mutant: wrapping_sub in place of saturating_sub
DieValue_wrapping(v) == (v - 1) % (U8Max + 1)

DieValue(v) == IF v > 0 THEN v - 1 ELSE 0

\* mutant: a cell that neither grows nor dies is cleared
rule_no_hold(v, n, o) ==
    IF o.grow[n] THEN GrowValue(v, o)
    ELSE IF o.die[n] THEN DieValue(v)
    ELSE 0

\* the value the rule gives a cell that holds v and has n live neighbours
rule(v, n, o) ==
    IF o.grow[n] THEN GrowValue(v, o)
    ELSE IF o.die[n] THEN DieValue(v)
    ELSE v

\* whether computing the cell (x, y) of `to` aborts: from[y][x] out of range, or
\* the increment overflowing in a build that checks it
CellPanics(f, x, y, o, checks) ==
    \/ get_cell(f, x, y) = None
    \/ /\ checks
       /\ IncOverflows(f[y + 1][x + 1])
       /\ o.grow[neighbors(f, x, y, o)]

CellValue(f, x, y, o) == rule(f[y + 1][x + 1], neighbors(f, x, y, o), o)

\* the three assertions at the head of advance
FirstLen(g) == IF Len(g) > 0 THEN Some(Len(g[1])) ELSE None
LastLen(g) == IF Len(g) > 0 THEN Some(Len(g[Len(g)])) ELSE None

\* mutant: the assertion on the last row is missing
SanityChecks_no_last(f, t) ==
    /\ Len(f) = Len(t)
    /\ FirstLen(f) = FirstLen(t)

\* mutant: the first and last rows are indexed, which needs a row to exist
SanityChecks_indexed(f, t) ==
    /\ Len(f) = Len(t)
    /\ Len(f) > 0
    /\ Len(f[1]) = Len(t[1])
    /\ Len(f[Len(f)]) = Len(t[Len(t)])

SanityChecks(f, t) ==
    /\ Len(f) = Len(t)
    /\ FirstLen(f) = FirstLen(t)
    /\ LastLen(f) = LastLen(t)

\* the cells of t, which the loops visit row by row
Cells(t) == UNION {{<<x, y>> : x \in 0..(Len(t[y + 1]) - 1)} : y \in 0..(Len(t) - 1)}

\* p is visited before q
Before(p, q) == p[2] < q[2] \/ (p[2] = q[2] /\ p[1] < q[1])

\* mutant: a dead cell with no live neighbour is skipped, not written
advance_skip_dead(f, t, o, checks) ==
    IF ~SanityChecks(f, t) THEN [ok |-> FALSE, to |-> t]
    ELSE LET bad == {p \in Cells(t) : CellPanics(f, p[1], p[2], o, checks)}
             stop == IF bad = {} THEN <<0, Len(t)>>
                     ELSE CHOOSE p \in bad : \A q \in bad : q = p \/ Before(p, q)
         IN  [ok |-> bad = {},
              to |-> [y \in 1..Len(t) |->
                        [x \in 1..Len(t[y]) |->
                           IF /\ Before(<<x - 1, y - 1>>, stop)
                              /\ ~(f[y][x] = 0 /\ neighbors(f, x - 1, y - 1, o) = 0)
                           THEN CellValue(f, x - 1, y - 1, o)
                           ELSE t[y][x]]]]

\* pub fn advance(from, to, opts): the outcome is whether the call returned
\* (ok) and the destination it leaves. An assertion that fails aborts before any
\* cell is written; a cell that aborts leaves the cells visited before it written
\* and the rest as they were.
advance(f, t, o, checks) ==
    IF ~SanityChecks(f, t) THEN [ok |-> FALSE, to |-> t]
    ELSE LET bad == {p \in Cells(t) : CellPanics(f, p[1], p[2], o, checks)}
         IN  IF bad = {}
             THEN [ok |-> TRUE,
                   to |-> [y \in 1..Len(t) |->
                             [x \in 1..Len(t[y]) |-> CellValue(f, x - 1, y - 1, o)]]]
             ELSE LET stop == CHOOSE p \in bad : \A q \in bad : q = p \/ Before(p, q)
                  IN  [ok |-> FALSE,
                       to |-> [y \in 1..Len(t) |->
                                 [x \in 1..Len(t[y]) |->
                                    IF Before(<<x - 1, y - 1>>, stop)
                                    THEN CellValue(f, x - 1, y - 1, o)
                                    ELSE t[y][x]]]]

----------------------------------------------------------------------------
\* Resize.

\* the rows of resize: extend with rows of x zeros, or keep rows 0..y
\* mutant: surplus rows are kept
resize_rows_no_truncate(g, x, y) ==
    IF Len(g) < y THEN g \o [i \in 1..(y - Len(g)) |-> Zeros(x)]
    ELSE g

resize_rows(g, x, y) ==
    IF Len(g) < y THEN g \o [i \in 1..(y - Len(g)) |-> Zeros(x)]
    ELSE IF Len(g) > y THEN SubSeq(g, 1, y)
    ELSE g

\* mutant: a long row keeps its last x cells, not its first
resize_row_keep_tail(row, x) ==
    IF Len(row) < x THEN row \o Zeros(x - Len(row))
    ELSE IF Len(row) > x THEN SubSeq(row, Len(row) - x + 1, Len(row))
    ELSE row

\* one row of resize: extend with zeros, or keep columns 0..x
resize_row(row, x) ==
    IF Len(row) < x THEN row \o Zeros(x - Len(row))
    ELSE IF Len(row) > x THEN SubSeq(row, 1, x)
    ELSE row

\* pub fn resize(grid, x, y)
resize(g, x, y) ==
    LET rows == resize_rows(g, x, y)
    IN  [i \in 1..Len(rows) |-> resize_row(rows[i], x)]

----------------------------------------------------------------------------
\* The Game.

\* Game::grid / Game::grid_mut: the current buffer
Grid == IF ~switch THEN g1 ELSE g2

\* the buffer the next Game::advance writes
Other == IF ~switch THEN g2 ELSE g1

Call(op, x, y, val, ret) == [op |-> op, x |-> x, y |-> y, val |-> val, ret |-> ret]

\* the buffers, the selector and the dimensions of a Game
Snapshot(b1, b2, sw, d) == [g1 |-> b1, g2 |-> b2, switch |-> sw, dims |-> d]

\* Game::new(opts)
Game_new ==
    /\ g1 = <<>>
    /\ g2 = <<>>
    /\ switch = FALSE
    /\ status = "ok"
    /\ dims = <<0, 0>>
    /\ steps = 0
    /\ gen = 0
    /\ origin = <<>>
    /\ advances = 0

\* mutant: the generation is written over its own source
Game_advance_in_place ==
    /\ status = "ok"
    /\ LET r == advance(Grid, Grid, opts, overflow_checks)
       IN  /\ IF ~switch THEN g1' = r.to /\ g2' = g2 ELSE g2' = r.to /\ g1' = g1
           /\ IF r.ok THEN switch' = ~switch /\ status' = "ok"
                      ELSE switch' = switch /\ status' = "panic"
           /\ advances' = IF r.ok THEN advances + 1 ELSE advances
    /\ steps' = steps + 1
    /\ gen' = gen + 1
    /\ last' = Call("advance", 0, 0, 0, None)
    /\ UNCHANGED <<opts, overflow_checks, dims, origin, fnVars>>

\* mutant: the selector is left as it was
Game_advance_no_flip ==
    /\ status = "ok"
    /\ LET r == advance(Grid, Other, opts, overflow_checks)
       IN  /\ IF ~switch THEN g2' = r.to /\ g1' = g1 ELSE g1' = r.to /\ g2' = g2
           /\ status' = IF r.ok THEN "ok" ELSE "panic"
           /\ advances' = IF r.ok THEN advances + 1 ELSE advances
    /\ switch' = switch
    /\ steps' = steps + 1
    /\ gen' = gen + 1
    /\ last' = Call("advance", 0, 0, 0, None)
    /\ UNCHANGED <<opts, overflow_checks, dims, origin, fnVars>>

\* Game::advance
Game_advance ==
    /\ status = "ok"
    /\ LET r == advance(Grid, Other, opts, overflow_checks)
       IN  /\ IF ~switch THEN g2' = r.to /\ g1' = g1 ELSE g1' = r.to /\ g2' = g2
           /\ IF r.ok THEN switch' = ~switch /\ status' = "ok"
                      ELSE switch' = switch /\ status' = "panic"
           /\ advances' = IF r.ok THEN advances + 1 ELSE advances
    /\ steps' = steps + 1
    /\ gen' = gen + 1
    /\ last' = Call("advance", 0, 0, 0, None)
    /\ UNCHANGED <<opts, overflow_checks, dims, origin, fnVars>>

\* mutant: only the first buffer is resized
Game_resize_g1_only(x, y) ==
    /\ status = "ok"
    /\ g1' = resize(g1, x, y)
    /\ g2' = g2
    /\ dims' = <<x, y>>
    /\ steps' = steps + 1
    /\ gen' = 0
    /\ origin' = (IF ~switch THEN g1' ELSE g2')
    /\ last' = Call("resize", x, y, 0, None)
    /\ UNCHANGED <<switch, opts, overflow_checks, status, advances, fnVars>>

\* Game::resize(x, y)
Game_resize(x, y) ==
    /\ status = "ok"
    /\ g1' = resize(g1, x, y)
    /\ g2' = resize(g2, x, y)
    /\ dims' = <<x, y>>
    /\ steps' = steps + 1
    /\ gen' = 0
    /\ origin' = (IF ~switch THEN g1' ELSE g2')
    /\ last' = Call("resize", x, y, 0, None)
    /\ UNCHANGED <<switch, opts, overflow_checks, status, advances, fnVars>>

\* Game::set_cell(x, y, val)
Game_set_cell(x, y, val) ==
    /\ status = "ok"
    /\ IF ~switch THEN g1' = put_cell(g1, x, y, val) /\ g2' = g2
                  ELSE g2' = put_cell(g2, x, y, val) /\ g1' = g1
    /\ steps' = steps + 1
    /\ gen' = 0
    /\ origin' = (IF ~switch THEN g1' ELSE g2')
    /\ last' = Call("set_cell", x, y, val, None)
    /\ UNCHANGED <<switch, opts, overflow_checks, status, dims, advances, fnVars>>

\* Game::get_cell(x, y): a read of the current buffer
Game_get_cell(x, y) == get_cell(Grid, x, y)

\* the values a driver paints: dead and the ceiling (tui.rs:107-117)
PaintVals(o) == {0, o.life}

\* no run of resizes is followed
NoTrip ==
    /\ snap = Snapshot(<<>>, <<>>, FALSE, <<0, 0>>)
    /\ trail = <<>>

\* tui::run is not running
NoRun ==
    /\ NoTrip
    /\ update = FALSE
    /\ auto_advance = FALSE
    /\ quit = FALSE
    /\ draw_times = <<>>
    /\ pc = "idle"

\* Game::new alone, or as tui::run starts: Game::new followed by the first resize
\* to the terminal's size (tui.rs:140-149)
Init ==
    /\ opts \in RuleConfigs
    /\ overflow_checks \in BOOLEAN
    /\ \/ Game_new /\ last = Call("new", 0, 0, 0, None)
       \/ /\ status = "ok"
          /\ switch = FALSE
          /\ \E x \in 0..MaxW, y \in 0..MaxH :
                /\ g1 = resize(<<>>, x, y)
                /\ g2 = resize(<<>>, x, y)
                /\ dims = <<x, y>>
                /\ last = Call("resize", x, y, 0, None)
          /\ origin = g1
          /\ steps = 0
          /\ gen = 0
          /\ advances = 0
    /\ from = <<>> /\ to = <<>> /\ alt = <<>> /\ grid = <<>>
    /\ NoRun

Next ==
    \/ /\ \E x \in 0..MaxW, y \in 0..MaxH : steps < MaxSteps /\ Game_resize(x, y)
       /\ UNCHANGED <<tripVars, uiVars>>
    \/ /\ \E x \in 0..MaxW, y \in 0..MaxH, v \in PaintVals(opts) :
             steps < MaxSteps /\ Game_set_cell(x, y, v)
       /\ UNCHANGED <<tripVars, uiVars>>
    \/ steps < MaxSteps /\ Game_advance /\ UNCHANGED <<tripVars, uiVars>>

Spec == Init /\ [][Next]_vars

----------------------------------------------------------------------------
\* The blinker scenario: classic Life on a grid of 5 rows and at least 5 columns,
\* up to three cells painted at the ceiling as the driver paints them
\* (tui.rs:107-111), then two generations. No u8 reaches 255 here, so one build
\* stands for both.

InitBlinker ==
    /\ opts = Classic
    /\ overflow_checks = FALSE
    /\ status = "ok"
    /\ switch = FALSE
    /\ \E x \in 5..MaxBlinkW :
          /\ g1 = resize(<<>>, x, 5)
          /\ g2 = resize(<<>>, x, 5)
          /\ dims = <<x, 5>>
          /\ last = Call("resize", x, 5, 0, None)
    /\ origin = g1
    /\ steps = 0
    /\ gen = 0
    /\ advances = 0
    /\ from = <<>> /\ to = <<>> /\ alt = <<>> /\ grid = <<>>
    /\ NoRun

NextBlinker ==
    \/ /\ \E x \in 0..(dims[1] - 1), y \in 0..(dims[2] - 1) :
             /\ last.op # "advance"
             /\ steps < 3
             /\ Game_set_cell(x, y, opts.life)
       /\ UNCHANGED <<tripVars, uiVars>>
    \/ gen < 2 /\ Game_advance /\ UNCHANGED <<tripVars, uiVars>>

SpecBlinker == InitBlinker /\ [][NextBlinker]_vars

----------------
\* tui::run: the event loop around the Game (tui.rs:134-201). One pass of the
\* loop is an event step, which leaves pc at "draw", and the draw step, which
\* brings it back to "loop"; the loop is left when state.quit is set. Rules that
\* keep every u8 far from 255 are used, so one build stands for both.

\* what an event step leaves alone besides what it names
gameState == <<g1, g2, switch, status, dims, steps, gen, origin, last, advances>>
fixed == <<opts, overflow_checks, tripVars, fnVars>>

InitRun ==
    /\ opts \in {Classic, CellOpts(TRUE, 2, {2, 3}, {1, 2})}
    /\ overflow_checks = FALSE
    /\ status = "ok"
    /\ switch = FALSE
    /\ \E x \in 0..MaxW, y \in 0..MaxH :
          /\ g1 = resize(<<>>, x, y)
          /\ g2 = resize(<<>>, x, y)
          /\ dims = <<x, y>>
          /\ last = Call("resize", x, y, 0, None)
    /\ origin = g1
    /\ steps = 0
    /\ gen = 0
    /\ advances = 0
    /\ NoTrip
    /\ from = <<>> /\ to = <<>> /\ alt = <<>> /\ grid = <<>>
    /\ update = FALSE
    /\ auto_advance = FALSE
    /\ quit = FALSE
    /\ draw_times = <<>>
    /\ pc = "loop"

\* the loop condition holds and try_read is about to be called
Polling == pc = "loop" /\ ~quit /\ status = "ok"

\* KeyCode::Char('n')
Run_key_n ==
    /\ Polling
    /\ steps < MaxSteps
    /\ Game_advance
    /\ update' = TRUE
    /\ pc' = "draw"
    /\ UNCHANGED <<auto_advance, quit, draw_times, tripVars>>

\* KeyCode::Char('a')
Run_key_a ==
    /\ Polling
    /\ auto_advance' = ~auto_advance
    /\ pc' = "draw"
    /\ UNCHANGED <<gameState, fixed, update, quit, draw_times>>

\* KeyCode::Esc, or KeyCode::Char('c') with CONTROL
Run_key_quit ==
    /\ Polling
    /\ quit' = TRUE
    /\ pc' = "draw"
    /\ UNCHANGED <<gameState, fixed, update, auto_advance, draw_times>>

\* a left (val = life) or right (val = 0) press or drag at (x, y)
Run_mouse(x, y, val) ==
    /\ Polling
    /\ IF Game_get_cell(x, y) # Some(val)
       THEN /\ steps < MaxSteps
            /\ Game_set_cell(x, y, val)
            /\ update' = TRUE
            /\ UNCHANGED tripVars
       ELSE UNCHANGED <<gameState, fixed, update>>
    /\ pc' = "draw"
    /\ UNCHANGED <<auto_advance, quit, draw_times>>

\* Event::Resize(x, y)
Run_resize(x, y) ==
    /\ Polling
    /\ steps < MaxSteps
    /\ Game_resize(x, y)
    /\ update' = TRUE
    /\ pc' = "draw"
    /\ UNCHANGED <<auto_advance, quit, draw_times, tripVars>>

\* any other event
Run_ignored ==
    /\ Polling
    /\ pc' = "draw"
    /\ UNCHANGED <<gameState, fixed, update, auto_advance, quit, draw_times>>

\* try_read(0.1) gave no event
Run_timeout ==
    /\ Polling
    /\ IF auto_advance
       THEN /\ steps < MaxSteps
            /\ Game_advance
            /\ update' = TRUE
            /\ UNCHANGED tripVars
       ELSE UNCHANGED <<gameState, fixed, update>>
    /\ pc' = "draw"
    /\ UNCHANGED <<auto_advance, quit, draw_times>>

\* if state.update { draw; state.update = false; draw_times.push(..) }
Run_draw ==
    /\ pc = "draw"
    /\ IF update
       THEN update' = FALSE /\ draw_times' = Append(draw_times, 1)
       ELSE UNCHANGED <<update, draw_times>>
    /\ pc' = "loop"
    /\ UNCHANGED <<gameState, fixed, auto_advance, quit>>

\* the average of the draw times: Duration / u32 aborts on a divisor of 0
DrawAvg(ts) == IF Len(ts) = 0 THEN None ELSE Some(Len(ts) \div Len(ts))

\* the median printed: draw_times[len / 2], which aborts out of range
DrawMedian(ts) == IF Len(ts) \div 2 < Len(ts) THEN Some(ts[(Len(ts) \div 2) + 1]) ELSE None

\* the loop is left: cleanup, then the two statistics
Run_exit ==
    /\ pc = "loop" /\ quit
    /\ IF DrawAvg(draw_times) = None \/ DrawMedian(draw_times) = None
       THEN status' = "panic" /\ pc' = "panic"
       ELSE status' = status /\ pc' = "done"
    /\ UNCHANGED <<g1, g2, switch, dims, steps, gen, origin, last, advances, fixed,
                   update, auto_advance, quit, draw_times>>

NextRun ==
    \/ Run_key_n
    \/ Run_key_a
    \/ Run_key_quit
    \/ \E x \in 0..MaxW, y \in 0..MaxH, v \in PaintVals(opts) : Run_mouse(x, y, v)
    \/ \E x \in 0..MaxW, y \in 0..MaxH : Run_resize(x, y)
    \/ Run_ignored
    \/ Run_timeout
    \/ Run_draw
    \/ Run_exit

SpecRun == InitRun /\ [][NextRun]_vars

----------------
\* Two resizes in a row, from any Game the driver can have built: a size within
\* the bounds, every cell of the current grid dead or at the ceiling as painted
\* (tui.rs:107-117), the other buffer all dead or all at the ceiling, either
\* buffer current. snap keeps the Game as it was, trail the sizes asked for.

InitTrip ==
    /\ opts = Classic
    /\ overflow_checks = FALSE
    /\ status = "ok"
    /\ switch \in BOOLEAN
    /\ \E w \in 0..MaxW, h \in 0..MaxH :
          /\ dims = <<w, h>>
          /\ \E cur \in [1..h -> [1..w -> PaintVals(opts)]], s \in PaintVals(opts) :
                IF ~switch THEN g1 = cur /\ g2 = [y \in 1..h |-> [x \in 1..w |-> s]]
                           ELSE g2 = cur /\ g1 = [y \in 1..h |-> [x \in 1..w |-> s]]
    /\ origin = Grid
    /\ steps = 0
    /\ gen = 0
    /\ advances = (IF switch THEN 1 ELSE 0)
    /\ last = Call("input", 0, 0, 0, None)
    /\ snap = Snapshot(g1, g2, switch, dims)
    /\ trail = <<>>
    /\ from = <<>> /\ to = <<>> /\ alt = <<>> /\ grid = <<>>
    /\ update = FALSE /\ auto_advance = FALSE /\ quit = FALSE
    /\ draw_times = <<>> /\ pc = "idle"

\* the first or the second of two Game::resize calls
Trip_resize(x, y) ==
    /\ Len(trail) < 2
    /\ Game_resize(x, y)
    /\ trail' = Append(trail, <<x, y>>)
    /\ UNCHANGED <<snap, uiVars>>

NextTrip == \E x \in 0..MaxW, y \in 0..MaxH : Trip_resize(x, y)

SpecTrip == InitTrip /\ [][NextTrip]_vars

----------------
\* The free functions run on their own, on inputs drawn from bounded sets.

\* cell values of the inputs: dead, alive, and the largest u8
CellVals == {0, 1, U8Max}

\* values a destination may hold before the call
StaleVals == {0, 7}

\* a grid of the shape of g with every cell v
Fill(g, v) == [y \in 1..Len(g) |-> [x \in 1..Len(g[y]) |-> v]]

\* rectangular grids of at most MaxCells cells (empty grids and grids of empty
\* rows included)
RectGrids ==
    UNION {[1..h -> [1..w -> CellVals]] :
             <<w, h>> \in {d \in (0..MaxCells) \X (0..MaxCells) : d[1] * d[2] <= MaxCells}}

\* grids whose rows need not be of one length: up to ShapeRows rows of up to
\* ShapeCols cells, all cells v
RaggedGrids(v) ==
    UNION {{[y \in 1..h |-> [x \in 1..lens[y] |-> v]] : lens \in [1..h -> 0..ShapeCols]} :
             h \in 0..ShapeRows}

\* the Game is not used in these runs
NoGame ==
    /\ Game_new
    /\ last = Call("input", 0, 0, 0, None)
    /\ NoRun

\* inputs of advance: a rectangular source with a destination and a second
\* destination of its shape, or a source and a destination of any two shapes
InitFn ==
    /\ opts \in RuleConfigs
    /\ overflow_checks \in BOOLEAN
    /\ NoGame
    /\ grid = <<>>
    /\ \E s \in StaleVals :
          /\ \/ from \in RectGrids /\ to = Fill(from, s)
             \/ from \in RaggedGrids(1) /\ to \in RaggedGrids(s)
          /\ \E s2 \in StaleVals \ {s} : alt = Fill(to, s2)

\* advance(&from, &mut to, opts), and the same call on the second destination
Fn_advance ==
    /\ last.op = "input"
    /\ LET r  == advance(from, to, opts, overflow_checks)
           r2 == advance(from, alt, opts, overflow_checks)
       IN  /\ to' = r.to
           /\ alt' = r2.to
           /\ status' = IF r.ok /\ r2.ok THEN "ok" ELSE "panic"
    /\ origin' = to
    /\ last' = Call("advance", 0, 0, 0, None)
    /\ UNCHANGED <<gameVars, tripVars, uiVars, opts, overflow_checks, from, grid>>

NextFn == Fn_advance

SpecFn == InitFn /\ [][NextFn]_vars

\* Neighbour counts need sources with a cell that has all eight neighbours:
\* up to three rows of up to NbCols cells, each cell dead or alive, the live
\* cells at one level where x + y is even and at the other where it is odd.
\* The count does not depend on the build, so one build stands for both.
NbLevels == {<<1, U8Max>>, <<U8Max, 1>>}

NbGrids ==
    UNION {{[y \in 1..h |-> [x \in 1..w |->
                IF pat[y][x] THEN lv[((x + y) % 2) + 1] ELSE 0]] :
              pat \in [1..h -> [1..w -> BOOLEAN]], lv \in NbLevels} :
           w \in 1..NbCols, h \in 1..3}

InitCount ==
    /\ opts \in RuleConfigs
    /\ overflow_checks = FALSE
    /\ NoGame
    /\ grid = <<>>
    /\ from \in NbGrids
    /\ to = Fill(from, 7)
    /\ alt = Fill(from, 0)

NextCount == Fn_advance

SpecCount == InitCount /\ [][NextCount]_vars

\* inputs of resize: any of the grids above
InitResize ==
    /\ opts = Classic
    /\ overflow_checks = FALSE
    /\ NoGame
    /\ from = <<>> /\ to = <<>> /\ alt = <<>>
    /\ grid \in RectGrids \cup RaggedGrids(1)

\* resize(&mut grid, x, y)
Fn_resize(x, y) ==
    /\ last.op = "input"
    /\ grid' = resize(grid, x, y)
    /\ origin' = grid
    /\ last' = Call("resize", x, y, 0, None)
    /\ UNCHANGED <<gameVars, tripVars, uiVars, opts, overflow_checks, status, from, to, alt>>

NextResize == \E x \in 0..MaxW, y \in 0..MaxH : Fn_resize(x, y)

SpecResize == InitResize /\ [][NextResize]_vars

----------------------------------------------------------------------------
\* Properties.

\* every cell of g is in 0..hi
InRange(g, hi) == \A y \in 1..Len(g) : \A x \in 1..Len(g[y]) : g[y][x] \in 0..hi

\* g has h rows, each of w cells
HasDims(g, w, h) == Len(g) = h /\ \A y \in 1..Len(g) : Len(g[y]) = w

AllZero(g) == InRange(g, 0)

IsRect(g) == \A y \in 1..Len(g) : Len(g[y]) = Len(g[1])

\* the coordinate is outside the grid of the last resize
OutOfRange(x, y) == x >= dims[1] \/ y >= dims[2]

\* the step is a call of Game::advance / Game::set_cell
AdvanceStep == last'.op = "advance" /\ steps' = steps + 1
SetCellStep == last'.op = "set_cell" /\ steps' = steps + 1

\* C1. Bounded values: whatever resize, advance and set_cell (with a value of at
\* most life) have been called, every cell of the current grid is in 0..life.
C1_BoundedValues == InRange(Grid, opts.life)

\* a cell that stood at a ceiling below 255 was told to grow, and stayed there
C1_Witness ==
    /\ gen = 1 /\ status = "ok"
    /\ opts.life > 0 /\ opts.life < U8Max
    /\ \E p \in Cells(origin) :
          /\ origin[p[2] + 1][p[1] + 1] = opts.life
          /\ opts.grow[neighbors(origin, p[1], p[2], opts)]
          /\ Grid[p[2] + 1][p[1] + 1] = opts.life

\* C2. Dimension preservation: both buffers always have the height and width of
\* the last resize (0 x 0 if none), so the assertions of advance hold of the
\* current buffer and the other one.
C2_DimensionPreservation ==
    /\ HasDims(g1, dims[1], dims[2])
    /\ HasDims(g2, dims[1], dims[2])
    /\ SanityChecks(Grid, Other)

\* a non-empty grid was shrunk after a generation had flipped the buffers
C2_Witness ==
    /\ last.op = "resize" /\ switch
    /\ dims[1] > 0 /\ dims[2] > 0
    /\ dims[1] < MaxW /\ dims[2] < MaxH

\* C3. Classic-Life blinker: from the horizontal line at row 2, columns 1..3 on a
\* grid of 5 rows and at least 5 columns, one advance gives exactly the vertical
\* line at rows 1..3 of column 2, and a second advance gives the horizontal line
\* again.
IsHorizontal(g) ==
    /\ Len(g) = 5
    /\ \A y \in 1..Len(g) :
          /\ Len(g[y]) >= 5
          /\ \A x \in 1..Len(g[y]) :
                g[y][x] = IF y - 1 = 2 /\ x - 1 \in 1..3 THEN 1 ELSE 0

IsVertical(g) ==
    /\ Len(g) = 5
    /\ \A y \in 1..Len(g) :
          /\ Len(g[y]) >= 5
          /\ \A x \in 1..Len(g[y]) :
                g[y][x] = IF x - 1 = 2 /\ y - 1 \in 1..3 THEN 1 ELSE 0

C3_Blinker ==
    (opts = Classic /\ IsHorizontal(origin)) =>
        /\ gen >= 1 => status = "ok"
        /\ gen = 1 => IsVertical(Grid)
        /\ gen = 2 => Grid = origin

\* two generations after the horizontal line was painted
C3_Witness ==
    /\ opts = Classic /\ IsHorizontal(origin)
    /\ gen = 2 /\ Grid = origin /\ IsVertical(Other)

\* the call of advance on the drawn inputs has been made
Advanced == last.op = "advance"

\* the source and the destination as it was before the call are of one shape
SameShape(f, t) == Len(f) = Len(t) /\ \A y \in 1..Len(f) : Len(f[y]) = Len(t[y])

\* C4. Saturating growth: for every source value v and every life, a cell whose
\* count has grow set becomes exactly min(v + 1, life); the addition neither
\* wraps nor aborts the call.
C4_SaturatingGrowth ==
    (Advanced /\ SameShape(from, origin)) =>
        \A p \in Cells(from) :
            opts.grow[neighbors(from, p[1], p[2], opts)] =>
                /\ status = "ok"
                /\ to[p[2] + 1][p[1] + 1] = Min(from[p[2] + 1][p[1] + 1] + 1, opts.life)

\* C5. Grow-before-die precedence: a cell whose count n has grow[n] and die[n]
\* both set becomes min(source + 1, life), never the decrement; die[n] acts
\* only where grow[n] is not set.
C5_GrowBeforeDie ==
    (Advanced /\ SameShape(from, origin)) =>
        \A p \in Cells(from) :
            LET n == neighbors(from, p[1], p[2], opts)
                v == from[p[2] + 1][p[1] + 1]
            IN  /\ (opts.grow[n] /\ opts.die[n]) =>
                      /\ status = "ok"
                      /\ to[p[2] + 1][p[1] + 1] = Min(v + 1, opts.life)
                /\ (status = "ok" /\ ~opts.grow[n] /\ opts.die[n]) =>
                      to[p[2] + 1][p[1] + 1] = (IF v > 0 THEN v - 1 ELSE 0)

DiffersWhereChecked(f, t) ==
    \/ Len(f) # Len(t)
    \/ /\ Len(f) > 0
       /\ \/ Len(f[1]) # Len(t[1])
          \/ Len(f[Len(f)]) # Len(t[Len(t)])

C7_OutOfRange ==
    /\ [](\A x \in 0..(MaxW + 1), y \in 0..(MaxH + 1) :
             OutOfRange(x, y) => Game_get_cell(x, y) = None)
    /\ [][(SetCellStep /\ OutOfRange(last'.x, last'.y)) =>
             (status' = "ok" /\ UNCHANGED <<g1, g2, switch, dims>>)]_vars

\* set_cell was called outside a grid that holds a live cell
C7_Witness ==
    /\ last.op = "set_cell" /\ OutOfRange(last.x, last.y)
    /\ Game_get_cell(last.x, last.y) = None
    /\ status = "ok" /\ ~AllZero(Grid)

\* C8. Resize contract: the result has exactly h rows of exactly w cells; a cell
\* (x, y) with x < min(w0, w) and y < min(h0, h) keeps its value, every other
\* cell is 0.
C8_ResizeContract ==
    last.op = "resize" =>
        LET w == last.x
            h == last.y
            h0 == Len(origin)
            w0 == IF h0 > 0 THEN Len(origin[1]) ELSE 0
        IN  /\ HasDims(grid, w, h)
            /\ IsRect(origin) =>
                  \A y \in 0..(h - 1), x \in 0..(w - 1) :
                      grid[y + 1][x + 1] =
                          IF x < Min(w0, w) /\ y < Min(h0, h)
                          THEN origin[y + 1][x + 1] ELSE 0

\* a grid with live cells lost rows and gained columns
C8_Witness ==
    /\ last.op = "resize" /\ IsRect(origin)
    /\ Len(origin) > last.y /\ last.y > 0
    /\ Len(origin[1]) < last.x /\ Len(origin[1]) > 0
    /\ \A y \in 1..Len(origin) : origin[y][1] # 0
    /\ ~AllZero(grid)

\* C9. Independence from stale destination content: two calls with the same
\* source and rules, on destinations of the same shape with different contents,
\* leave identical destinations: every cell is overwritten.
C9_StaleIndependence == (Advanced /\ status = "ok") => to = alt

\* the two destinations differed in every cell, and cells of every rule branch
\* were written
C9_Witness ==
    /\ Advanced /\ status = "ok" /\ to = alt
    /\ SameShape(from, origin)
    /\ \E p \in Cells(from) : from[p[2] + 1][p[1] + 1] = 0 /\ to[p[2] + 1][p[1] + 1] = 0
    /\ \E p \in Cells(from) : to[p[2] + 1][p[1] + 1] > from[p[2] + 1][p[1] + 1]
    /\ \E p \in Cells(from) : to[p[2] + 1][p[1] + 1] < from[p[2] + 1][p[1] + 1]
    /\ \A p \in Cells(origin) : origin[p[2] + 1][p[1] + 1] # 0

\* C10. Stasis of the dead grid: when every cell of the current grid is 0 and
\* grow[0] is not set, advance leaves every cell of the current grid 0, whatever
\* the other buffer held.
C10_Stasis ==
    [][ (AdvanceStep /\ AllZero(Grid) /\ ~opts.grow[0]) =>
            (status' = "ok" /\ AllZero(Grid') /\ HasDims(Grid', dims[1], dims[2])) ]_vars

\* the second of two generations ran from an all-dead grid into a buffer that
\* held the live cells painted before the first
C10_Witness ==
    /\ gen = 2 /\ status = "ok" /\ ~opts.grow[0]
    /\ ~AllZero(origin)
    /\ AllZero(Other)
    /\ AllZero(Grid) /\ Cells(Grid) # {}

\* C11. The source is frozen: Game::advance leaves the buffer it reads exactly as
\* it was, and once the call has returned that buffer is the non-current one,
\* cell for cell the grid that was current before the call.
C11_SourceFrozen ==
    [][ AdvanceStep =>
            /\ IF ~switch THEN g1' = g1 ELSE g2' = g2
            /\ (status' = "ok") => (Other' = Grid) ]_vars

\* a generation ran from a grid with live cells into a different grid, and the
\* other buffer still holds the grid it ran from
C11_Witness ==
    /\ last.op = "advance" /\ status = "ok" /\ gen = 1
    /\ ~AllZero(origin)
    /\ Other = origin
    /\ Grid # Other

\* the generation that follows g, computed cell by cell from g alone
Transition(g, o) ==
    [y \in 1..Len(g) |-> [x \in 1..Len(g[y]) |-> CellValue(g, x - 1, y - 1, o)]]

\* C12. Ping-pong ordering: every Game::advance that returns reads the current
\* buffer, writes the other one and flips the selector once, so the current grid
\* is then the transition of the grid that was current before the call, edits
\* included; no other call moves the selector; and g1 is current exactly when the
\* number of advances so far is even.
C12_PingPong ==
    /\ [](status = "ok" => (switch <=> advances % 2 = 1))
    /\ [][ IF AdvanceStep
           THEN status' = "ok" =>
                    /\ switch' = ~switch
                    /\ Grid' = Transition(Grid, opts)
                    /\ IF ~switch THEN g1' = g1 /\ g2' = Transition(g1, opts)
                                  ELSE g2' = g2 /\ g1' = Transition(g2, opts)
           ELSE switch' = switch ]_vars

\* two generations with an edit of the first one between them: g1 is current
\* again and holds the transition of the edited grid
C12_Witness ==
    /\ last.op = "advance" /\ status = "ok"
    /\ advances = 2 /\ steps = 3 /\ gen = 1
    /\ ~switch
    /\ g1 = Transition(origin, opts)
    /\ g2 = origin
    /\ ~AllZero(g1) /\ g1 # g2

\* the offsets the claims speak of: four orthogonal, four diagonal
Orthogonal == {<<0, -1>>, <<1, 0>>, <<0, 1>>, <<-1, 0>>}
Diagonal == {<<1, -1>>, <<1, 1>>, <<-1, 1>>, <<-1, -1>>}
Offsets(o) == IF o.corners THEN Orthogonal \cup Diagonal ELSE Orthogonal

\* (x, y) lies inside f
Inside(f, x, y) == y >= 0 /\ y < Len(f) /\ x >= 0 /\ x < Len(f[y + 1])

\* the offsets at which (x, y) has a cell inside f that is not 0
LiveAround(f, x, y, o) ==
    {d \in Offsets(o) : /\ Inside(f, x + d[1], y + d[2])
                        /\ f[y + d[2] + 1][x + d[1] + 1] # 0}

\* C13. Neighbour counting: for every cell the count that indexes grow and die
\* is the number of offsets (4 orthogonal, and the 4 diagonal exactly when
\* corners is set) that lead to a cell inside the grid holding a non-zero value,
\* each counted once whatever its level and the cell itself never; the count is
\* in 0..8 (0..4 without corners), and the cell written is the rule applied to it.
C13_NeighborCount ==
    \A p \in Cells(from) :
        LET n == neighbors(from, p[1], p[2], opts)
            m == Cardinality(LiveAround(from, p[1], p[2], opts))
        IN  /\ n = m
            /\ n \in 0..(IF opts.corners THEN 8 ELSE 4)
            /\ (Advanced /\ status = "ok") =>
                   to[p[2] + 1][p[1] + 1] = rule(from[p[2] + 1][p[1] + 1], m, opts)

\* a 3 x 3 source, all alive at two levels: the centre counted 8, an edge cell 5
\* and a corner cell 3, and the generation was written
C13_Witness ==
    /\ Advanced /\ status = "ok" /\ opts.corners
    /\ HasDims(from, 3, 3)
    /\ \A p \in Cells(from) : from[p[2] + 1][p[1] + 1] # 0
    /\ from[1][1] # from[1][2]
    /\ neighbors(from, 1, 1, opts) = 8
    /\ neighbors(from, 1, 0, opts) = 5
    /\ neighbors(from, 2, 2, opts) = 3
    /\ to # from

\* the offsets from (0, 0) that have no negative coordinate
FromOrigin(o) == {d \in Offsets(o) : d[1] >= 0 /\ d[2] >= 0}

\* C15. Edge-cell behaviour: for the cell at (0, 0) every candidate with a
\* negative coordinate is discarded, so its count is the number of live cells
\* among right and down (and down-right when corners is set): at most 2 without
\* corners and at most 3 with, whatever the grid holds.
C15_EdgeCell ==
    get_cell(from, 0, 0) # None =>
        LET c == candidates(0, 0, opts)
            n == neighbors(from, 0, 0, opts)
            m == Cardinality({d \in FromOrigin(opts) : /\ Inside(from, d[1], d[2])
                                                        /\ from[d[2] + 1][d[1] + 1] # 0})
        IN  /\ \A i \in 1..Len(c) : (c[i][1] < 0 \/ c[i][2] < 0) => lookup(from, c[i]) = None
            /\ n = m
            /\ n <= (IF opts.corners THEN 3 ELSE 2)
            /\ (Advanced /\ status = "ok") => to[1][1] = rule(from[1][1], m, opts)

\* without corners, the cell at (0, 0) of a grid whose nine cells are all alive
\* counted 2 and died of it
C15_Witness ==
    /\ Advanced /\ status = "ok" /\ ~opts.corners
    /\ HasDims(from, 3, 3)
    /\ \A p \in Cells(from) : from[p[2] + 1][p[1] + 1] # 0
    /\ neighbors(from, 0, 0, opts) = 2
    /\ opts.die[2] /\ ~opts.grow[2]
    /\ to[1][1] < from[1][1]

\* C14. Decay and hold: a cell with source value v and n live neighbours, with
\* grow[n] unset, becomes v - 1 (0 when v is 0) if die[n] is set and stays v if
\* it is not; and neither branch can abort the call.
C14_DecayAndHold ==
    /\ (Advanced /\ status = "ok") =>
           \A p \in Cells(to) :
               LET v == from[p[2] + 1][p[1] + 1]
                   n == neighbors(from, p[1], p[2], opts)
                   w == to[p[2] + 1][p[1] + 1]
               IN  /\ (~opts.grow[n] /\ opts.die[n]) => w = (IF v > 0 THEN v - 1 ELSE 0)
                   /\ (~opts.grow[n] /\ ~opts.die[n]) => w = v
    /\ ( /\ Advanced
         /\ SameShape(from, origin)
         /\ \A p \in Cells(from) : ~opts.grow[neighbors(from, p[1], p[2], opts)] )
       => status = "ok"

\* one generation in which a live cell decayed, a dead cell stayed dead under
\* die, and a live cell was held
C14_Witness ==
    /\ Advanced /\ status = "ok"
    /\ \E p \in Cells(to) :
          LET n == neighbors(from, p[1], p[2], opts)
          IN  /\ ~opts.grow[n] /\ opts.die[n]
              /\ from[p[2] + 1][p[1] + 1] = U8Max /\ to[p[2] + 1][p[1] + 1] = U8Max - 1
    /\ \E p \in Cells(to) :
          LET n == neighbors(from, p[1], p[2], opts)
          IN  /\ ~opts.grow[n] /\ opts.die[n]
              /\ from[p[2] + 1][p[1] + 1] = 0 /\ to[p[2] + 1][p[1] + 1] = 0
    /\ \E p \in Cells(to) :
          LET n == neighbors(from, p[1], p[2], opts)
          IN  /\ ~opts.grow[n] /\ ~opts.die[n]
              /\ from[p[2] + 1][p[1] + 1] = 1 /\ to[p[2] + 1][p[1] + 1] = 1

\* C17. In-bounds edit: set_cell(x, y, v) on an in-bounds (x, y) makes
\* get_cell(x, y) return Some(v), changes no other cell of the current buffer,
\* and leaves the other buffer, the selector, the dimensions and the rules as
\* they were; no transition rule is applied.
C17_InBoundsEdit ==
    [][ (SetCellStep /\ ~OutOfRange(last'.x, last'.y)) =>
            /\ status' = "ok"
            /\ get_cell(Grid', last'.x, last'.y) = Some(last'.val)
            /\ SameShape(Grid, Grid')
            /\ \A p \in Cells(Grid) :
                   p # <<last'.x, last'.y>> => Grid'[p[2] + 1][p[1] + 1] = Grid[p[2] + 1][p[1] + 1]
            /\ Other' = Other
            /\ UNCHANGED <<switch, dims, opts, advances>> ]_vars

\* after a generation, a cell of the second buffer was painted alive among
\* dead cells that would have made a transition kill it
C17_Witness ==
    /\ last.op = "set_cell" /\ status = "ok" /\ switch
    /\ ~OutOfRange(last.x, last.y)
    /\ last.val # 0
    /\ Game_get_cell(last.x, last.y) = Some(last.val)
    /\ Cardinality(Cells(Grid)) > 1
    /\ \A p \in Cells(Grid) : p # <<last.x, last.y>> => Grid[p[2] + 1][p[1] + 1] = 0
    /\ opts.die[0] /\ ~opts.grow[0]
    /\ g2 # g1

\* C18. Initial state: a Game just built has g1 current and both buffers 0 x 0;
\* while it has not been resized, get_cell gives None everywhere, and any number
\* of Game::advance calls return normally and leave both buffers empty.
C18_InitialState ==
    /\ last.op = "new" => (~switch /\ g1 = <<>> /\ g2 = <<>> /\ dims = <<0, 0>>)
    /\ (dims = <<0, 0>> /\ steps = gen) =>
           /\ status = "ok"
           /\ advances = steps
           /\ g1 = <<>> /\ g2 = <<>>
           /\ \A x \in 0..MaxW, y \in 0..MaxH : Game_get_cell(x, y) = None

\* a Game that was only ever advanced, more than once, is still empty
C18_Witness ==
    /\ last.op = "advance" /\ status = "ok"
    /\ dims = <<0, 0>>
    /\ steps = gen /\ advances >= 2
    /\ g1 = <<>> /\ g2 = <<>>
    /\ Game_get_cell(0, 0) = None

\* C16. Truncation discards state: after a resize to (w', h') and a resize back
\* to the size (w, h) the Game had, every cell with x >= w' or y >= h' is 0 in
\* the current grid and in the other buffer, whatever it held before.
C16_TruncationDiscards ==
    (Len(trail) = 2 /\ trail[2] = snap.dims) =>
        \A x \in 0..(dims[1] - 1), y \in 0..(dims[2] - 1) :
            (x >= trail[1][1] \/ y >= trail[1][2]) =>
                (get_cell(Grid, x, y) = Some(0) /\ get_cell(Other, x, y) = Some(0))

\* a Game shrunk in both directions and grown back lost the live cell that its
\* current grid and its other buffer held in the far corner
C16_Witness ==
    /\ Len(trail) = 2 /\ trail[2] = snap.dims
    /\ trail[1][1] < dims[1] /\ trail[1][1] > 0
    /\ trail[1][2] < dims[2] /\ trail[1][2] > 0
    /\ get_cell(snap.g1, dims[1] - 1, dims[2] - 1) = Some(opts.life)
    /\ get_cell(snap.g2, dims[1] - 1, dims[2] - 1) = Some(opts.life)
    /\ get_cell(snap.g1, 0, 0) = Some(opts.life)
    /\ get_cell(Grid, 0, 0) = Some(opts.life)
    /\ get_cell(g1, dims[1] - 1, dims[2] - 1) = Some(0)
    /\ get_cell(g2, dims[1] - 1, dims[2] - 1) = Some(0)

\* C19. Grow-then-shrink round trip: a resize to a size at least as wide and as
\* tall, followed at once by a resize back, leaves both buffers and the selector
\* exactly as they were before the two calls.
C19_GrowShrinkRoundTrip ==
    ( /\ Len(trail) = 2 /\ trail[2] = snap.dims
      /\ trail[1][1] >= snap.dims[1] /\ trail[1][2] >= snap.dims[2] )
    => (status = "ok" /\ g1 = snap.g1 /\ g2 = snap.g2 /\ switch = snap.switch)

\* a Game with live cells in both buffers, the second one current, was grown in
\* both directions and shrunk back
C19_Witness ==
    /\ Len(trail) = 2 /\ trail[2] = snap.dims
    /\ trail[1][1] > snap.dims[1] /\ trail[1][2] > snap.dims[2]
    /\ switch
    /\ ~AllZero(g1) /\ ~AllZero(g2)
    /\ g1 = snap.g1 /\ g2 = snap.g2

\* C20. Clean exit of the driver loop: whenever the loop is left on a quit
\* event, a quit that comes before any other event included, at least one draw
\* time has been recorded, so the statistics are computed and run ends normally.
C20_CleanExit ==
    /\ (pc = "loop" /\ quit) => Len(draw_times) >= 1
    /\ pc # "panic"

====
